---- MODULE Spec2Model ----
(***************************************************************************)
(* A model of src/gmail_client.py: the AsyncGmailClient fetch              *)
(* orchestration (get_profile, get_labels, get_recent_emails,              *)
(* fetch_all_data over an asyncio event loop) and the payload normalizer   *)
(* (_transform_message and its helpers).                                   *)
(*                                                                         *)
(* Conventions.  A Python str that the code inspects character by          *)
(* character (base64 body data, header names, internalDate) is a sequence  *)
(* of one-character strings; decoded text is a sequence of code points.    *)
(* A dict is a function whose DOMAIN is its set of keys.  A call that can  *)
(* raise yields Ok(v) or Raise(e).                                         *)
(***************************************************************************)
EXTENDS Integers, Sequences, FiniteSets, TLC

\* The state of a client, of the event loop that runs its coroutines, and of
\* an application of _transform_message.
VARIABLES
  credentials,  \* self.credentials: [expired, refresh_token (is there one)]
  service,      \* self.service: 0 for None, else the handle build() returned
  builds,       \* how many handles build() has returned
  refreshed,    \* whether credentials.refresh() has returned
  builtWith,    \* the credentials as they were passed to the last build()
  lastIssue,    \* whether the credentials were expired at the last remote call
  task,         \* the coroutines of get_profile, get_labels, get_recent_emails
  fa,           \* the coroutine of fetch_all_data
  inflight,     \* the remote calls handed to an executor and not yet resumed
  raw,          \* the argument of _transform_message
  normalized    \* what _transform_message returned or raised

vars == << credentials, service, builds, refreshed, builtWith, lastIssue,
           task, fa, inflight, raw, normalized >>

clientVars == << credentials, service, builds, refreshed, builtWith, lastIssue,
                 task, fa, inflight >>

Ok(v) == [ok |-> TRUE, val |-> v]
Raise(e) == [ok |-> FALSE, exc |-> e]

\* dict.get(key, default)
Get(d, k, default) == IF k \in DOMAIN d THEN d[k] ELSE default

EmptyDict == [k \in {} |-> ""]

(***************************************************************************)
(* base64.urlsafe_b64decode(data)                                          *)
(***************************************************************************)
B64Chars ==
  << "A","B","C","D","E","F","G","H","I","J","K","L","M","N","O","P",
     "Q","R","S","T","U","V","W","X","Y","Z","a","b","c","d","e","f",
     "g","h","i","j","k","l","m","n","o","p","q","r","s","t","u","v",
     "w","x","y","z","0","1","2","3","4","5","6","7","8","9","+","/" >>

\* Characters outside ASCII, each written as its code point.
NonAscii == {"U+00E9"}

\* the urlsafe alphabet is translated to the standard one before decoding
UrlsafeTranslate(c) == IF c = "-" THEN "+" ELSE IF c = "_" THEN "/" ELSE c

IsB64Char(c) == \E i \in 1..64 : B64Chars[i] = c

B64Value(c) == (CHOOSE i \in 1..64 : B64Chars[i] = c) - 1

\* binascii.a2b_base64 in its default (non-strict) mode: characters outside
\* the alphabet are skipped, a complete pad sequence ends the parse, and a
\* quad left incomplete at the end of the input is an error.
RECURSIVE A2bBase64(_, _, _, _, _, _)
A2bBase64(s, i, quad_pos, leftchar, pads, out) ==
  IF i > Len(s)
  THEN IF quad_pos # 0 THEN Raise([type |-> "binascii.Error"]) ELSE Ok(out)
  ELSE LET c == UrlsafeTranslate(s[i]) IN
       IF c = "="
       THEN IF quad_pos >= 2 /\ quad_pos + pads + 1 >= 4
            THEN Ok(out)
            ELSE A2bBase64(s, i + 1, quad_pos, leftchar,
                           IF quad_pos >= 2 THEN pads + 1 ELSE pads, out)
       ELSE IF ~IsB64Char(c)
       THEN A2bBase64(s, i + 1, quad_pos, leftchar, pads, out)
       ELSE LET v == B64Value(c) IN
            CASE quad_pos = 0 -> A2bBase64(s, i + 1, 1, v, 0, out)
              [] quad_pos = 1 ->
                   A2bBase64(s, i + 1, 2, v % 16, 0,
                             Append(out, leftchar * 4 + (v \div 16)))
              [] quad_pos = 2 ->
                   A2bBase64(s, i + 1, 3, v % 4, 0,
                             Append(out, leftchar * 16 + (v \div 4)))
              [] quad_pos = 3 ->
                   A2bBase64(s, i + 1, 0, 0, 0, Append(out, leftchar * 64 + v))

\* A str argument must be pure ASCII (ValueError otherwise); the result is
\* the byte sequence, or binascii.Error (a ValueError) on bad padding.
UrlsafeB64decode(data) ==
  IF \E i \in 1..Len(data) : data[i] \in NonAscii
  THEN Raise([type |-> "ValueError"])
  ELSE A2bBase64(data, 1, 0, 0, 0, <<>>)

(***************************************************************************)
(* bytes.decode('utf-8', errors='ignore')                                  *)
(***************************************************************************)
IsCont(b) == b >= 128 /\ b <= 191

\* The second byte of a multi-byte sequence, with the ranges that exclude
\* overlong forms, surrogates and code points above U+10FFFF.
Second3Ok(b1, b2) ==
  /\ IsCont(b2)
  /\ (b1 = 224 => b2 >= 160)
  /\ (b1 = 237 => b2 <= 159)

Second4Ok(b1, b2) ==
  /\ IsCont(b2)
  /\ (b1 = 240 => b2 >= 144)
  /\ (b1 = 244 => b2 <= 143)

\* Invalid bytes are dropped: an invalid start byte alone, a lead byte with
\* the valid part of its sequence when a continuation byte is wrong, and a
\* sequence the end of the data cuts short.
RECURSIVE Utf8DecodeIgnore(_, _, _)
Utf8DecodeIgnore(b, i, out) ==
  IF i > Len(b) THEN out
  ELSE LET ch == b[i]
           left == Len(b) - i + 1
       IN
       IF ch < 128 THEN Utf8DecodeIgnore(b, i + 1, Append(out, ch))
       ELSE IF ch < 194 THEN Utf8DecodeIgnore(b, i + 1, out)
       ELSE IF ch < 224 THEN
            IF left < 2 THEN out
            ELSE IF ~IsCont(b[i + 1]) THEN Utf8DecodeIgnore(b, i + 1, out)
            ELSE Utf8DecodeIgnore(b, i + 2,
                   Append(out, (ch - 192) * 64 + (b[i + 1] - 128)))
       ELSE IF ch < 240 THEN
            IF left < 2 THEN out
            ELSE IF ~Second3Ok(ch, b[i + 1]) THEN Utf8DecodeIgnore(b, i + 1, out)
            ELSE IF left < 3 THEN out
            ELSE IF ~IsCont(b[i + 2]) THEN Utf8DecodeIgnore(b, i + 2, out)
            ELSE Utf8DecodeIgnore(b, i + 3,
                   Append(out, (ch - 224) * 4096 + (b[i + 1] - 128) * 64
                               + (b[i + 2] - 128)))
       ELSE IF ch < 245 THEN
            IF left < 2 THEN out
            ELSE IF ~Second4Ok(ch, b[i + 1]) THEN Utf8DecodeIgnore(b, i + 1, out)
            ELSE IF left < 3 THEN out
            ELSE IF ~IsCont(b[i + 2]) THEN Utf8DecodeIgnore(b, i + 2, out)
            ELSE IF left < 4 THEN out
            ELSE IF ~IsCont(b[i + 3]) THEN Utf8DecodeIgnore(b, i + 3, out)
            ELSE Utf8DecodeIgnore(b, i + 4,
                   Append(out, (ch - 240) * 262144 + (b[i + 1] - 128) * 4096
                               + (b[i + 2] - 128) * 64 + (b[i + 3] - 128)))
       ELSE Utf8DecodeIgnore(b, i + 1, out)

\* base64.urlsafe_b64decode(data).decode('utf-8', errors='ignore')
DecodeBody(data) ==
  LET bytes == UrlsafeB64decode(data) IN
  IF bytes.ok THEN Ok(Utf8DecodeIgnore(bytes.val, 1, <<>>)) ELSE bytes

(***************************************************************************)
(* _extract_email_content                                                  *)
(***************************************************************************)
\* part.get('body', {}).get('data', '')
BodyData(part) == Get(Get(part, "body", EmptyDict), "data", <<>>)

\* _get_text_from_part: a text/plain or text/html part with inline data
\* returns its decoded data (whatever it decodes to); any other part walks
\* its sub-parts in order and returns the first non-empty text.  An error
\* raised by a decode leaves the walk at once.
RECURSIVE _get_text_from_part(_)

\* (a walk that took the text of every sub-part before it chose one)
EveryPart(parts, i) ==
  LET texts == [j \in i..Len(parts) |-> _get_text_from_part(parts[j])]
      failed == { j \in i..Len(parts) : ~texts[j].ok }
      found == { j \in i..Len(parts) : texts[j].ok /\ texts[j].val # <<>> }
  IN IF failed # {} THEN texts[CHOOSE j \in failed : \A k \in failed : j <= k]
     ELSE IF found # {} THEN texts[CHOOSE j \in found : \A k \in found : j <= k]
     ELSE Ok(<<>>)

RECURSIVE NestedParts(_, _)
NestedParts(parts, i) ==
  IF i > Len(parts) THEN Ok(<<>>)
  ELSE LET text == _get_text_from_part(parts[i]) IN
       IF ~text.ok THEN text
       ELSE IF text.val # <<>> THEN text
       ELSE NestedParts(parts, i + 1)

\* (a _get_text_from_part that took text/plain parts only)
PlainPartsOnly(part) ==
  LET mimeType == Get(part, "mimeType", "None")
      data == BodyData(part)
      nested == NestedParts(Get(part, "parts", <<>>), 1)
  IN IF mimeType = "text/plain" /\ data # <<>> THEN DecodeBody(data) ELSE nested

_get_text_from_part(part) ==
  LET mimeType == Get(part, "mimeType", "None")
      data == BodyData(part)
      nested == NestedParts(Get(part, "parts", <<>>), 1)
  IN IF mimeType = "text/plain"
     THEN IF data # <<>> THEN DecodeBody(data) ELSE nested
     ELSE IF mimeType = "text/html"
     THEN IF data # <<>> THEN DecodeBody(data) ELSE nested
     ELSE nested

\* (an _extract_email_content whose text/plain case returned in any event)
TopLevelOnly(payload) ==
  IF Get(payload, "mimeType", "None") = "text/plain"
  THEN IF BodyData(payload) # <<>> THEN DecodeBody(BodyData(payload)) ELSE Ok(<<>>)
  ELSE _get_text_from_part(payload)

_extract_email_content(payload) ==
  IF Get(payload, "mimeType", "None") = "text/plain" /\ BodyData(payload) # <<>>
  THEN DecodeBody(BodyData(payload))
  ELSE _get_text_from_part(payload)

(***************************************************************************)
(* _extract_header_value                                                   *)
(***************************************************************************)
UpperCase == << "A","B","C","D","E","F","G","H","I","J","K","L","M",
                "N","O","P","Q","R","S","T","U","V","W","X","Y","Z" >>
LowerCase == << "a","b","c","d","e","f","g","h","i","j","k","l","m",
                "n","o","p","q","r","s","t","u","v","w","x","y","z" >>

LowerChar(c) ==
  IF \E i \in 1..26 : UpperCase[i] = c
  THEN LowerCase[CHOOSE i \in 1..26 : UpperCase[i] = c]
  ELSE c

\* str.lower()
Lower(s) == [i \in 1..Len(s) |-> LowerChar(s[i])]

RECURSIVE HeaderLoop(_, _, _)
HeaderLoop(headers, name, i) ==
  IF i > Len(headers) THEN ""
  ELSE IF Lower(Get(headers[i], "name", <<>>)) = Lower(name)
       THEN Get(headers[i], "value", "")
       ELSE HeaderLoop(headers, name, i + 1)

\* (an _extract_header_value that compared the names as they are written)
ExactNameLookup(headers, name) ==
  LET found == { i \in 1..Len(headers) : Get(headers[i], "name", <<>>) = name } IN
  IF found = {} THEN ""
  ELSE Get(headers[CHOOSE i \in found : \A j \in found : i <= j], "value", "")

_extract_header_value(headers, name) == HeaderLoop(headers, name, 1)

(***************************************************************************)
(* Timestamp: int(internalDate), datetime.fromtimestamp(ms / 1000),        *)
(* isoformat().  Integers of any size are digit sequences (most            *)
(* significant first, no leading zero, zero is <<>>) with a sign.          *)
(***************************************************************************)
Digits == << "0","1","2","3","4","5","6","7","8","9" >>

IsDigit(c) == \E i \in 1..10 : Digits[i] = c

DigitValue(c) == (CHOOSE i \in 1..10 : Digits[i] = c) - 1

\* The value None, which is no str: no str has it as its character sequence.
PyNone == << "None" >>

RECURSIVE StripLeft(_)
StripLeft(s) == IF s # <<>> /\ Head(s) = " " THEN StripLeft(Tail(s)) ELSE s

RECURSIVE StripRight(_)
StripRight(s) ==
  IF s # <<>> /\ s[Len(s)] = " " THEN StripRight(SubSeq(s, 1, Len(s) - 1)) ELSE s

RECURSIVE StripZeros(_)
StripZeros(d) == IF d # <<>> /\ Head(d) = 0 THEN StripZeros(Tail(d)) ELSE d

\* Digits with single underscores between them, as int() accepts them.
DigitsOk(s) ==
  /\ s # <<>>
  /\ \A i \in 1..Len(s) : IsDigit(s[i]) \/ s[i] = "_"
  /\ s[1] # "_" /\ s[Len(s)] # "_"
  /\ \A i \in 1..(Len(s) - 1) : ~(s[i] = "_" /\ s[i + 1] = "_")

RECURSIVE DigitsOf(_)
DigitsOf(s) ==
  IF s = <<>> THEN <<>>
  ELSE IF Head(s) = "_" THEN DigitsOf(Tail(s))
  ELSE <<DigitValue(Head(s))>> \o DigitsOf(Tail(s))

\* int(x) for a str or None: surrounding blanks and one sign are allowed.
PyInt(x) ==
  IF x = PyNone THEN Raise([type |-> "TypeError"])
  ELSE LET t == StripRight(StripLeft(x))
           signed == t # <<>> /\ Head(t) \in {"-", "+"}
           body == IF signed THEN Tail(t) ELSE t
       IN IF ~DigitsOk(body) THEN Raise([type |-> "ValueError"])
          ELSE LET mag == StripZeros(DigitsOf(body)) IN
               Ok([neg |-> signed /\ Head(t) = "-" /\ mag # <<>>, mag |-> mag])

\* a < b, a = b or a > b for two magnitudes: -1, 0 or 1
RECURSIVE CmpLex(_, _)
CmpLex(a, b) ==
  IF a = <<>> THEN 0
  ELSE IF Head(a) < Head(b) THEN -1
  ELSE IF Head(a) > Head(b) THEN 1
  ELSE CmpLex(Tail(a), Tail(b))

CmpMag(a, b) ==
  IF Len(a) < Len(b) THEN -1 ELSE IF Len(a) > Len(b) THEN 1 ELSE CmpLex(a, b)

\* quotient and remainder of a magnitude by a small positive divisor
RECURSIVE DivModMag(_, _, _, _)
DivModMag(d, by, q, r) ==
  IF d = <<>> THEN [q |-> q, r |-> r]
  ELSE LET n == r * 10 + Head(d) IN
       DivModMag(Tail(d), by, q * 10 + (n \div by), n % by)

RECURSIVE SmallValue(_, _)
SmallValue(d, acc) ==
  IF d = <<>> THEN acc ELSE SmallValue(Tail(d), acc * 10 + Head(d))

\* 2^63: outside [-2^63, 2^63) seconds the timestamp fits no time_t.
TimeTLimit == << 9,2,2,3,3,7,2,0,3,6,8,5,4,7,7,5,8,0,8 >>

\* The last second whose year localtime() can hold in a C int, and the
\* magnitude of the first.
LocaltimeMax == << 6,7,7,6,8,0,3,6,1,9,1,6,7,6,7,9,9 >>
LocaltimeMin == << 6,7,7,6,8,0,4,0,6,0,9,7,4,0,8,0,0 >>

\* Days since 1970-01-01 to (year, month, day) in the proleptic Gregorian
\* calendar, for the days of the years 1..9999.
CivilFromDays(days) ==
  LET z == days + 719468
      era == z \div 146097
      doe == z - era * 146097
      yoe == (doe - (doe \div 1460) + (doe \div 36524) - (doe \div 146096)) \div 365
      doy == doe - (365 * yoe + (yoe \div 4) - (yoe \div 100))
      mp == (5 * doy + 2) \div 153
      d == doy - ((153 * mp + 2) \div 5) + 1
      m == IF mp < 10 THEN mp + 3 ELSE mp - 9
      y == yoe + era * 400 + (IF m <= 2 THEN 1 ELSE 0)
  IN [year |-> y, month |-> m, day |-> d]

\* the decimal digits of n, zero-padded on the left to the given width
RECURSIVE Pad(_, _)
Pad(n, width) ==
  IF width = 0 THEN ""
  ELSE Pad(n \div 10, width - 1) \o Digits[(n % 10) + 1]

\* datetime.isoformat(): the microseconds are printed only when not zero
IsoFormat(days, sod, us) ==
  LET c == CivilFromDays(days) IN
  Pad(c.year, 4) \o "-" \o Pad(c.month, 2) \o "-" \o Pad(c.day, 2) \o "T"
  \o Pad(sod \div 3600, 2) \o ":" \o Pad((sod % 3600) \div 60, 2) \o ":"
  \o Pad(sod % 60, 2)
  \o (IF us = 0 THEN "" ELSE "." \o Pad(us \div 1000, 3) \o "000")

\* datetime.fromtimestamp(ms / 1000).isoformat() for an integer ms, in a
\* process whose local time is UTC.  The seconds are floor(ms / 1000).  In
\* order: a value no time_t (or no float) holds is an OverflowError, one
\* whose year localtime() cannot hold an OSError, one outside the years
\* 1..9999 (with the day the fold probe looks back) a ValueError.  The
\* rounding of the float ms / 1000 is left out: it moves the two outer
\* limits by a few hundred seconds and the last digits of the microseconds
\* of the latest years.
FromTimestampIso(ms) ==
  LET whole == SubSeq(ms.mag, 1, Len(ms.mag) - 3)
      frac == SmallValue(SubSeq(ms.mag, Len(ms.mag) - 2, Len(ms.mag)), 0)
      secs == IF Len(ms.mag) <= 3 THEN <<>> ELSE whole
      lowms == IF Len(ms.mag) <= 3 THEN SmallValue(ms.mag, 0) ELSE frac
      \* the magnitude of floor(ms / 1000), before the carry of a negative
      carry == IF ms.neg /\ lowms # 0 THEN 1 ELSE 0
      us == IF ms.neg /\ lowms # 0 THEN (1000 - lowms) * 1000 ELSE lowms * 1000
  IN
  IF CmpMag(secs, TimeTLimit) >= (IF ms.neg THEN 1 ELSE 0)
  THEN Raise([type |-> "OverflowError"])
  ELSE IF CmpMag(secs, IF ms.neg THEN LocaltimeMin ELSE LocaltimeMax) > 0
       THEN Raise([type |-> "OSError"])
  ELSE IF Len(secs) > 12 THEN Raise([type |-> "ValueError"])
  ELSE LET dm == DivModMag(secs, 86400, 0, 0)
           \* |seconds| = dm.q days + dm.r seconds, plus the carry
           r1 == dm.r + carry
           aq == IF r1 = 86400 THEN dm.q + 1 ELSE dm.q
           ar == IF r1 = 86400 THEN 0 ELSE r1
           days == IF ~ms.neg THEN aq
                   ELSE IF ar = 0 THEN 0 - aq ELSE 0 - aq - 1
           sod == IF ~ms.neg \/ ar = 0 THEN ar ELSE 86400 - ar
       IN IF days < -719161 \/ days > 2932896 THEN Raise([type |-> "ValueError"])
          ELSE Ok(IsoFormat(days, sod, us))

\* datetime.fromtimestamp(0).isoformat()
EpochIso == FromTimestampIso([neg |-> FALSE, mag |-> <<>>]).val

\* (a _transform_message that left the time stamp of a message without
\* internalDate empty)
TimestampIfPresent(message) ==
  IF "internalDate" \notin DOMAIN message THEN Ok("")
  ELSE LET timestamp_ms == PyInt(message.internalDate) IN
       IF ~timestamp_ms.ok
       THEN IF timestamp_ms.exc.type \in {"ValueError", "TypeError"}
            THEN Ok(EpochIso) ELSE timestamp_ms
       ELSE LET timestamp == FromTimestampIso(timestamp_ms.val) IN
            IF ~timestamp.ok /\ timestamp.exc.type \in {"ValueError", "TypeError"}
            THEN Ok(EpochIso) ELSE timestamp

\* The try block of _transform_message: ValueError and TypeError fall back to
\* the epoch; any other error leaves _transform_message.
MessageTimestamp(message) ==
  LET timestamp_ms == PyInt(Get(message, "internalDate", <<"0">>)) IN
  IF ~timestamp_ms.ok
  THEN IF timestamp_ms.exc.type \in {"ValueError", "TypeError"}
       THEN Ok(EpochIso) ELSE timestamp_ms
  ELSE LET timestamp == FromTimestampIso(timestamp_ms.val) IN
       IF ~timestamp.ok /\ timestamp.exc.type \in {"ValueError", "TypeError"}
       THEN Ok(EpochIso) ELSE timestamp

(***************************************************************************)
(* _transform_message                                                      *)
(***************************************************************************)
\* (a _transform_message that filled the threadId in only once the client had
\* its handle)
ThreadIdWithHandle(message) ==
  LET payload == Get(message, "payload", EmptyDict)
      headers == Get(payload, "headers", <<>>)
      timestamp == MessageTimestamp(message)
      messageText == _extract_email_content(payload)
  IN IF ~timestamp.ok THEN timestamp
     ELSE IF ~messageText.ok THEN messageText
     ELSE Ok([ messageId |-> Get(message, "id", ""),
               threadId |-> IF service = 0 THEN "" ELSE Get(message, "threadId", ""),
               messageTimestamp |-> timestamp.val,
               labelIds |-> Get(message, "labelIds", <<>>),
               sender |-> _extract_header_value(headers, <<"F","r","o","m">>),
               subject |-> _extract_header_value(headers,
                                                 <<"S","u","b","j","e","c","t">>),
               messageText |-> messageText.val ])

\* (a _transform_message that looked for the labels in the payload)
LabelsOfPayload(message) ==
  LET payload == Get(message, "payload", EmptyDict)
      headers == Get(payload, "headers", <<>>)
      timestamp == MessageTimestamp(message)
      messageText == _extract_email_content(payload)
  IN IF ~timestamp.ok THEN timestamp
     ELSE IF ~messageText.ok THEN messageText
     ELSE Ok([ messageId |-> Get(message, "id", ""),
               threadId |-> Get(message, "threadId", ""),
               messageTimestamp |-> timestamp.val,
               labelIds |-> Get(payload, "labelIds", <<>>),
               sender |-> _extract_header_value(headers, <<"F","r","o","m">>),
               subject |-> _extract_header_value(headers,
                                                 <<"S","u","b","j","e","c","t">>),
               messageText |-> messageText.val ])

_transform_message(message) ==
  LET payload == Get(message, "payload", EmptyDict)
      headers == Get(payload, "headers", <<>>)
      timestamp == MessageTimestamp(message)
      messageText == _extract_email_content(payload)
  IN IF ~timestamp.ok THEN timestamp
     ELSE IF ~messageText.ok THEN messageText
     ELSE Ok([ messageId |-> Get(message, "id", ""),
               threadId |-> Get(message, "threadId", ""),
               messageTimestamp |-> timestamp.val,
               labelIds |-> Get(message, "labelIds", <<>>),
               sender |-> _extract_header_value(headers, <<"F","r","o","m">>),
               subject |-> _extract_header_value(headers,
                                                 <<"S","u","b","j","e","c","t">>),
               messageText |-> messageText.val ])

(***************************************************************************)
(* The remote mail service, as the client sees it                          *)
(***************************************************************************)
\* the largest number of identifiers one list call returns
MaxIds == 2

\* the number of top-level calls a caller may have running beside one
\* fetch_all_data
MaxSolo == 1

MessageIds == {"m1", "m2", "m3"}

\* messages().get(userId='me', id=id, format='full').execute(): m1 is a
\* single-part text/plain message, m2 a nested multipart one whose header
\* names are in lower case, m3 a message whose body data is cut short.
RemoteMessage(id) ==
  CASE id = "m1" ->
         [ id |-> "m1", threadId |-> "t1",
           internalDate |-> <<"1","6","9","9","1","2","3","2","0","0","0","0","0">>,
           labelIds |-> <<"INBOX">>,
           payload |->
             [ headers |-> << [name |-> <<"F","r","o","m">>, value |-> "a@b.com"],
                              [name |-> <<"S","u","b","j","e","c","t">>,
                               value |-> "Hi"] >>,
               mimeType |-> "text/plain",
               body |-> [data |-> <<"S","G","k","=">>] ] ]
    [] id = "m2" ->
         [ id |-> "m2", threadId |-> "t1",
           internalDate |-> <<"x">>,
           payload |->
             [ headers |-> << [name |-> <<"f","r","o","m">>, value |-> "c@d.com"] >>,
               mimeType |-> "multipart/mixed",
               parts |-> << [ mimeType |-> "multipart/alternative",
                              parts |-> << [ mimeType |-> "text/html",
                                             body |-> [data |-> <<"P","G","I","-">>] ],
                                           [ mimeType |-> "text/plain",
                                             body |-> [data |-> <<"S","G","k","h">>] ]
                                        >> ] >> ] ]
    [] id = "m3" ->
         [ id |-> "m3",
           payload |-> [ mimeType |-> "text/plain",
                         body |-> [data |-> <<"S","G","k">>] ] ]

\* What a remote call can raise: googleapiclient's HttpError for a response
\* with an error status (401 or 403 authentication, 404 not found, 429
\* quota: the client treats every status alike), or an error of the
\* transport below it, which is no HttpError.
HttpError(status) == [type |-> "HttpError", status |-> status]
TransportError == [type |-> "TransportError"]
RemoteFailures == {HttpError("403"), TransportError}

\* users().getProfile(userId='me').execute()
ProfileResponses ==
  { [ emailAddress |-> "user@example.com", messagesTotal |-> 1500,
      threadsTotal |-> 750 ] }

\* users().labels().list(userId='me').execute()
LabelsResponses ==
  { [ labels |-> << [ id |-> "INBOX", name |-> "INBOX", type |-> "system",
                      messageListVisibility |-> "show",
                      labelListVisibility |-> "labelShow" ],
                    [ id |-> "Label_1", name |-> "Work", type |-> "user" ] >> ] }

\* The mailbox, most recent message first, as one list call or another may
\* find it.
Mailboxes == { <<"m1", "m2", "m3">>, <<"m3", "m2", "m1">> }

\* users().messages().list(userId='me', maxResults=n).execute(): the n most
\* recent identifiers, or fewer; with none, 'messages' is empty or absent.
ListResponses(maxResults) ==
  { [ messages |-> [i \in 1..n |-> [id |-> box[i], threadId |-> "t1"]],
      resultSizeEstimate |-> n ]
    : n \in 0..maxResults, box \in Mailboxes }
  \cup { [resultSizeEstimate |-> 0] }

(***************************************************************************)
(* The client and the event loop                                           *)
(***************************************************************************)
\* An asyncio future: pending, or done with a result or an exception.
Pending == [state |-> "pending"]
Result(v) == [state |-> "result", val |-> v]
Exception(e) == [state |-> "exception", exc |-> e]

FutureOf(r) == IF r.ok THEN Result(r.val) ELSE Exception(r.exc)

\* The three tasks fetch_all_data's gather creates, in the order of its
\* arguments, and the tasks of the calls made beside it.
Branches == 1..3
Solo == 4..(3 + MaxSolo)
Tasks == Branches \cup Solo

BranchKind(b) == CASE b = 1 -> "profile" [] b = 2 -> "labels" [] b = 3 -> "emails"

\* listed is the outcome of the list call, messages the outcomes of the detail
\* fetches by place, order the places in the order the fetches came back,
\* issued the remote calls the coroutine has handed to executors so far.
\* pc: "idle" (no coroutine), "new" (a task gather created that has not run
\* yet), "await" (at the await of its first remote call), "details" (at the
\* await of the gather of the detail fetches), "done".
Idle ==
  [ kind |-> "idle", pc |-> "idle", service |-> 0, max_results |-> 0,
    listed |-> Pending, message_ids |-> <<>>, messages |-> <<>>, order |-> <<>>,
    issued |-> <<>>, outcome |-> Pending ]

NoCredentials == [expired |-> FALSE, refresh_token |-> FALSE]
NoIssue == "none"
Issue(creds) == IF creds.expired THEN "expired" ELSE "valid"
NoMessage == [id |-> "none"]
NotCalled == [state |-> "not called"]

ClientInit ==
  /\ credentials \in [expired : BOOLEAN, refresh_token : BOOLEAN]
  /\ service = 0
  /\ builds = 0
  /\ refreshed = FALSE
  /\ builtWith = NoCredentials
  /\ lastIssue = NoIssue
  /\ task = [t \in Tasks |-> Idle]
  /\ fa = [pc |-> "idle", outcome |-> Pending]
  /\ inflight = {}

Init ==
  /\ ClientInit
  /\ raw = NoMessage
  /\ normalized = NotCalled

\* GmailAPIError(f"Failed to fetch {what}: {e}")
GmailAPIError(what, e) ==
  [type |-> "GmailAPIError", message |-> <<"Failed to fetch " \o what, e>>]

\* try: ... except HttpError as e: raise GmailAPIError(...)
ExceptHttpError(what, r) ==
  IF ~r.ok /\ r.exc.type = "HttpError"
  THEN Raise(GmailAPIError(what, r.exc))
  ELSE r

\* (a fetch_all_data that caught what its branches catch)
ExceptHttpErrorOnly(what, r) ==
  IF ~r.ok /\ r.exc.type = "HttpError"
  THEN Raise(GmailAPIError(what, r.exc))
  ELSE r

\* try: ... except Exception as e: raise GmailAPIError(...)
ExceptException(what, r) ==
  IF ~r.ok THEN Raise(GmailAPIError(what, r.exc)) ELSE r

\* (a _get_service that built a handle at every call)
BuildEveryTime(refresh_ok, build_ok) ==
  LET refresh == credentials.expired /\ credentials.refresh_token
      after == IF refresh THEN [credentials EXCEPT !.expired = FALSE]
               ELSE credentials
  IN IF refresh /\ ~refresh_ok
     THEN [ res |-> Raise([type |-> "RefreshError"]), service |-> service,
            credentials |-> credentials, refreshed |-> refreshed,
            built |-> FALSE ]
     ELSE IF ~build_ok
     THEN [ res |-> Raise([type |-> "BuildError"]), service |-> service,
            credentials |-> after, refreshed |-> refreshed \/ refresh,
            built |-> FALSE ]
     ELSE [ res |-> Ok(builds + 1), service |-> builds + 1,
            credentials |-> after, refreshed |-> refreshed \/ refresh,
            built |-> TRUE ]

\* (a _get_service that built the handle without a look at the credentials)
BuildWithoutRefresh(refresh_ok, build_ok) ==
  IF service # 0
  THEN [ res |-> Ok(service), service |-> service, credentials |-> credentials,
         refreshed |-> refreshed, built |-> FALSE ]
  ELSE IF ~build_ok
  THEN [ res |-> Raise([type |-> "BuildError"]), service |-> 0,
         credentials |-> credentials, refreshed |-> refreshed, built |-> FALSE ]
  ELSE [ res |-> Ok(builds + 1), service |-> builds + 1,
         credentials |-> credentials, refreshed |-> refreshed, built |-> TRUE ]

\* (a _get_service that kept what a failed attempt left behind)
KeepFailedHandle(refresh_ok, build_ok) ==
  IF service # 0
  THEN [ res |-> Ok(service), service |-> service, credentials |-> credentials,
         refreshed |-> refreshed, built |-> FALSE ]
  ELSE LET refresh == credentials.expired /\ credentials.refresh_token
           after == IF refresh THEN [credentials EXCEPT !.expired = FALSE]
                    ELSE credentials
       IN IF refresh /\ ~refresh_ok
          THEN [ res |-> Raise([type |-> "RefreshError"]), service |-> -1,
                 credentials |-> credentials, refreshed |-> refreshed,
                 built |-> FALSE ]
          ELSE IF ~build_ok
          THEN [ res |-> Raise([type |-> "BuildError"]), service |-> -1,
                 credentials |-> after, refreshed |-> refreshed \/ refresh,
                 built |-> FALSE ]
          ELSE [ res |-> Ok(builds + 1), service |-> builds + 1,
                 credentials |-> after, refreshed |-> refreshed \/ refresh,
                 built |-> TRUE ]

\* (a _get_service that looked at the credentials on every call)
RefreshOnEveryCall(refresh_ok, build_ok) ==
  LET refresh == credentials.expired /\ credentials.refresh_token
      after == IF refresh THEN [credentials EXCEPT !.expired = FALSE]
               ELSE credentials
  IN IF refresh /\ ~refresh_ok
     THEN [ res |-> Raise([type |-> "RefreshError"]), service |-> service,
            credentials |-> credentials, refreshed |-> refreshed,
            built |-> FALSE ]
     ELSE IF service # 0
     THEN [ res |-> Ok(service), service |-> service, credentials |-> after,
            refreshed |-> refreshed \/ refresh, built |-> FALSE ]
     ELSE IF ~build_ok
     THEN [ res |-> Raise([type |-> "BuildError"]), service |-> 0,
            credentials |-> after, refreshed |-> refreshed \/ refresh,
            built |-> FALSE ]
     ELSE [ res |-> Ok(builds + 1), service |-> builds + 1,
            credentials |-> after, refreshed |-> refreshed \/ refresh,
            built |-> TRUE ]

\* _get_service: the handle, built on the first call after a refresh of
\* expired credentials that have a refresh token.  refresh() and build()
\* may each raise; what is assigned before the raise stays assigned.
_get_service(refresh_ok, build_ok) ==
  IF service # 0
  THEN [ res |-> Ok(service), service |-> service, credentials |-> credentials,
         refreshed |-> refreshed, built |-> FALSE ]
  ELSE LET refresh == credentials.expired /\ credentials.refresh_token
           after == IF refresh THEN [credentials EXCEPT !.expired = FALSE]
                    ELSE credentials
       IN IF refresh /\ ~refresh_ok
          THEN [ res |-> Raise([type |-> "RefreshError"]), service |-> 0,
                 credentials |-> credentials, refreshed |-> refreshed,
                 built |-> FALSE ]
          ELSE IF ~build_ok
          THEN [ res |-> Raise([type |-> "BuildError"]), service |-> 0,
                 credentials |-> after, refreshed |-> refreshed \/ refresh,
                 built |-> FALSE ]
          ELSE [ res |-> Ok(builds + 1), service |-> builds + 1,
                 credentials |-> after, refreshed |-> refreshed \/ refresh,
                 built |-> TRUE ]

\* loop.run_in_executor(executor, lambda: service...execute())
\* (pos is the place of a detail fetch in the list of the tasks gathered)
Call(t, op, arg, pos, handle) ==
  [task |-> t, op |-> op, arg |-> arg, pos |-> pos, service |-> handle]

\* (a get_recent_emails that fetched a message before it listed any)
DetailFirst(t, kind, max_results, handle) ==
  CASE kind = "profile" -> Call(t, "GetProfile", "me", 0, handle)
    [] kind = "labels" -> Call(t, "ListLabels", "me", 0, handle)
    [] kind = "emails" -> Call(t, "GetMessage", "m1", 1, handle)

\* (a get_recent_emails that asked the list call for one identifier more)
ListOneMore(t, kind, max_results, handle) ==
  CASE kind = "profile" -> Call(t, "GetProfile", "me", 0, handle)
    [] kind = "labels" -> Call(t, "ListLabels", "me", 0, handle)
    [] kind = "emails" -> Call(t, "ListMessageIds", max_results + 1, 0, handle)

FirstCall(t, kind, max_results, handle) ==
  CASE kind = "profile" -> Call(t, "GetProfile", "me", 0, handle)
    [] kind = "labels" -> Call(t, "ListLabels", "me", 0, handle)
    [] kind = "emails" -> Call(t, "ListMessageIds", max_results, 0, handle)

\* (a gather that waited for results only and let an exception lie)
GatherResultsOnly(outer, children, child) ==
  IF outer.state # "pending" THEN outer
  ELSE IF \A c \in DOMAIN children : children[c].state = "result"
  THEN Result([c \in DOMAIN children |-> children[c].val])
  ELSE outer

\* asyncio.gather's callback for the child that has just finished: the first
\* exception of a child is the outcome; the results, in the order of the
\* children, once every child has one.
Gather(outer, children, child) ==
  IF outer.state # "pending" THEN outer
  ELSE IF children[child].state = "exception" THEN children[child]
  ELSE IF \A c \in DOMAIN children : children[c].state = "result"
  THEN Result([c \in DOMAIN children |-> children[c].val])
  ELSE outer

\* (a fetch_all_data that returned what it has when a branch failed)
PartialSnapshot(gathered) ==
  IF gathered.state = "pending" THEN Pending
  ELSE IF gathered.state = "exception" THEN Result([error |-> gathered.exc])
  ELSE Result([ profile |-> gathered.val[1], labels |-> gathered.val[2],
                emails |-> gathered.val[3] ])

\* fetch_all_data after its gather: the dict of the three results, or the
\* GmailAPIError that wraps whatever the gather raised.
FetchAllOutcome(gathered) ==
  IF gathered.state = "pending" THEN Pending
  ELSE FutureOf(ExceptException("Gmail data",
         IF gathered.state = "exception" THEN Raise(gathered.exc)
         ELSE Ok([ profile |-> gathered.val[1], labels |-> gathered.val[2],
                   emails |-> gathered.val[3] ])))

\* fetch_all_data as task t finishes (tasks is task', with t's outcome)
\* (a fetch_all_data that a task finishing after its return resumes again)
FetchAllLatest(tasks, t) ==
  IF t \in Branches /\ fa.pc \in {"await", "done"}
     /\ tasks[t].outcome.state # "pending"
  THEN LET o == FetchAllOutcome(
                  Gather(Pending, [b \in Branches |-> tasks[b].outcome], t))
       IN IF o.state = "pending" THEN fa
          ELSE [fa EXCEPT !.pc = "done", !.outcome = o]
  ELSE fa

FetchAllAfter(tasks, t) ==
  IF t \in Branches /\ fa.pc = "await" /\ tasks[t].outcome.state # "pending"
  THEN LET o == FetchAllOutcome(
                  Gather(Pending, [b \in Branches |-> tasks[b].outcome], t))
       IN IF o.state = "pending" THEN fa
          ELSE [fa EXCEPT !.pc = "done", !.outcome = o]
  ELSE fa

What(kind) == kind

\* The first step of get_profile, get_labels and get_recent_emails, up to
\* the first await: acquire the handle, hand the remote call to an executor.
\* An error of _get_service passes the except clause like any other.
Start(t, kind, max_results, refresh_ok, build_ok) ==
  LET g == _get_service(refresh_ok, build_ok) IN
  /\ service' = g.service
  /\ credentials' = g.credentials
  /\ refreshed' = g.refreshed
  /\ builds' = IF g.built THEN builds + 1 ELSE builds
  /\ builtWith' = IF g.built THEN g.credentials ELSE builtWith
  /\ IF g.res.ok
     THEN /\ task' = [task EXCEPT ![t] =
                        [Idle EXCEPT !.kind = kind, !.pc = "await",
                                     !.service = g.res.val,
                                     !.max_results = max_results,
                                     !.issued =
                                        <<FirstCall(t, kind, max_results, g.res.val)>>]]
          /\ inflight' = inflight \cup {FirstCall(t, kind, max_results, g.res.val)}
          /\ lastIssue' = Issue(g.credentials)
     ELSE /\ task' = [task EXCEPT ![t] =
                        [Idle EXCEPT !.kind = kind, !.pc = "done",
                                     !.max_results = max_results,
                                     !.outcome = FutureOf(ExceptHttpError(What(kind), g.res))]]
          /\ UNCHANGED << inflight, lastIssue >>
  /\ fa' = FetchAllAfter(task', t)
  /\ UNCHANGED << raw, normalized >>

\* A call made beside fetch_all_data takes the first free place for its task.
Free(t) ==
  /\ t \in Solo /\ task[t].pc = "idle"
  /\ \A u \in Solo : u < t => task[u].pc # "idle"

\* await client.get_profile()
GetProfile(t) ==
  /\ Free(t)
  /\ \E refresh_ok, build_ok \in BOOLEAN : Start(t, "profile", 0, refresh_ok, build_ok)

\* await client.get_labels()
GetLabels(t) ==
  /\ Free(t)
  /\ \E refresh_ok, build_ok \in BOOLEAN : Start(t, "labels", 0, refresh_ok, build_ok)

\* await client.get_recent_emails(max_results)
GetRecentEmails(t, max_results) ==
  /\ Free(t)
  /\ \E refresh_ok, build_ok \in BOOLEAN :
       Start(t, "emails", max_results, refresh_ok, build_ok)

\* await client.fetch_all_data(max_emails), up to its await: gather makes a
\* task of each of the three coroutines; none has run yet.
FetchAllData(max_emails) ==
  /\ fa.pc = "idle"
  /\ \A b \in Branches : task[b].pc = "idle"
  /\ fa' = [pc |-> "await", outcome |-> Pending]
  /\ task' = [t \in Tasks |->
               IF t \in Branches
               THEN [Idle EXCEPT !.kind = BranchKind(t), !.pc = "new",
                                 !.max_results = IF t = 3 THEN max_emails ELSE 0]
               ELSE task[t]]
  /\ UNCHANGED << credentials, service, builds, refreshed, builtWith, lastIssue,
                  inflight, raw, normalized >>

\* The event loop runs the tasks of a gather in the order it made them.
RunBranch(b) ==
  /\ b \in Branches /\ task[b].pc = "new"
  /\ \A c \in Branches : c < b => task[c].pc # "new"
  /\ \E refresh_ok, build_ok \in BOOLEAN :
       Start(b, task[b].kind, task[b].max_results, refresh_ok, build_ok)

\* (a loop that resumed a task while tasks made with it waited for a start)
ResumeBeforeStart(t) == t \in Tasks

\* A task of fetch_all_data's gather is resumed only after the tasks made
\* with it have had their first step: the loop's queue is first in first out.
MayResume(t) == t \in Branches => \A b \in Branches : task[b].pc # "new"

\* what a remote call comes back with
Outcomes(responses) ==
  { Ok(r) : r \in responses } \cup { Raise(e) : e \in RemoteFailures }

GmailProfile(profile) ==
  [ emailAddress |-> Get(profile, "emailAddress", ""),
    messagesTotal |-> Get(profile, "messagesTotal", 0),
    threadsTotal |-> Get(profile, "threadsTotal", 0),
    historyId |-> Get(profile, "historyId", "") ]

GmailLabel(label) ==
  [ id |-> Get(label, "id", ""),
    name |-> Get(label, "name", ""),
    type |-> Get(label, "type", ""),
    messageListVisibility |-> Get(label, "messageListVisibility", ""),
    labelListVisibility |-> Get(label, "labelListVisibility", "") ]

\* a coroutine returns or raises
Finish(t, r) ==
  /\ task' = [task EXCEPT ![t].pc = "done", ![t].outcome = FutureOf(r)]
  /\ fa' = FetchAllAfter(task', t)

\* get_profile after its await
ProfileResumes(c) ==
  /\ c \in inflight /\ c.op = "GetProfile" /\ MayResume(c.task)
  /\ inflight' = inflight \ {c}
  /\ \E r \in Outcomes(ProfileResponses) :
       Finish(c.task, ExceptHttpError("profile",
                        IF r.ok THEN Ok(GmailProfile(r.val)) ELSE r))
  /\ UNCHANGED << credentials, service, builds, refreshed, builtWith, lastIssue,
                  raw, normalized >>

\* get_labels after its await
LabelsResumes(c) ==
  /\ c \in inflight /\ c.op = "ListLabels" /\ MayResume(c.task)
  /\ inflight' = inflight \ {c}
  /\ \E r \in Outcomes(LabelsResponses) :
       Finish(c.task, ExceptHttpError("labels",
                        IF r.ok
                        THEN LET labels == Get(r.val, "labels", <<>>) IN
                             Ok([i \in 1..Len(labels) |-> GmailLabel(labels[i])])
                        ELSE r))
  /\ UNCHANGED << credentials, service, builds, refreshed, builtWith, lastIssue,
                  raw, normalized >>

\* message_ids = [msg['id'] for msg in messages_result.get('messages', [])]
MessageIdsOf(messages_result) ==
  LET messages == Get(messages_result, "messages", <<>>) IN
  [i \in 1..Len(messages) |-> messages[i].id]

\* (a get_recent_emails that reported an empty list as an error)
EmptyIsError == Raise([type |-> "ValueError"])

\* if not message_ids: return []
EmptyReturn == Ok(<<>>)

\* (a get_recent_emails that fetched every message twice)
DetailCallsTwice(t, message_ids, handle) ==
  { Call(t, "GetMessage", message_ids[i], i, handle) : i \in 1..Len(message_ids) }
    \cup { Call(t, "GetMessage", message_ids[i], Len(message_ids) + i, handle)
            : i \in 1..Len(message_ids) }

\* the calls of a set in the order of their places
InOrder(calls) ==
  [ i \in 1..Cardinality(calls) |->
      CHOOSE c \in calls : Cardinality({ d \in calls : d.pos < c.pos }) = i - 1 ]

\* tasks = [fetch_message(msg_id) for msg_id in message_ids]: one detail
\* fetch for each identifier, on the handle the coroutine holds
DetailCalls(t, message_ids, handle) ==
  { Call(t, "GetMessage", message_ids[i], i, handle) : i \in 1..Len(message_ids) }

\* get_recent_emails after the await of its list call: it raises, returns
\* [] when there is no identifier, or starts the detail fetches and awaits
\* their gather.
ListResumesWith(c, responses) ==
  /\ c \in inflight /\ c.op = "ListMessageIds" /\ MayResume(c.task)
  /\ \E r \in Outcomes(responses) :
       IF ~r.ok
       THEN /\ task' = [task EXCEPT
                          ![c.task].pc = "done",
                          ![c.task].listed = FutureOf(r),
                          ![c.task].outcome = FutureOf(ExceptHttpError("emails", r))]
            /\ fa' = FetchAllAfter(task', c.task)
            /\ inflight' = inflight \ {c}
            /\ UNCHANGED lastIssue
       ELSE LET message_ids == MessageIdsOf(r.val) IN
            IF message_ids = <<>>
            THEN /\ task' = [task EXCEPT
                               ![c.task].pc = "done",
                               ![c.task].listed = FutureOf(r),
                               ![c.task].outcome =
                                  FutureOf(ExceptHttpError("emails", EmptyReturn))]
                 /\ fa' = FetchAllAfter(task', c.task)
                 /\ inflight' = inflight \ {c}
                 /\ UNCHANGED lastIssue
            ELSE /\ task' = [task EXCEPT
                               ![c.task].pc = "details",
                               ![c.task].listed = FutureOf(r),
                               ![c.task].message_ids = message_ids,
                               ![c.task].messages =
                                  [i \in 1..Len(message_ids) |-> Pending],
                               ![c.task].issued =
                                  task[c.task].issued \o
                                    InOrder(DetailCalls(c.task, message_ids, c.service))]
                 /\ inflight' = (inflight \ {c})
                                  \cup DetailCalls(c.task, message_ids, c.service)
                 /\ lastIssue' = Issue(credentials)
                 /\ UNCHANGED fa
  /\ UNCHANGED << credentials, service, builds, refreshed, builtWith,
                  raw, normalized >>

\* The list call comes back from a service that keeps to maxResults.
ListResumes(c) == ListResumesWith(c, ListResponses(c.arg))

\* return [self._transform_message(msg) for msg in messages]: the first
\* message whose transformation raises ends the comprehension
RECURSIVE TransformAll(_, _, _)
TransformAll(messages, i, out) ==
  IF i > Len(messages) THEN Ok(out)
  ELSE LET m == _transform_message(messages[i]) IN
       IF m.ok THEN TransformAll(messages, i + 1, Append(out, m.val)) ELSE m

\* (a gather that kept its results in the order they arrive)
ArrivalIndex(op, pos) == Len(op.order) + 1

\* gather keeps each result at the place of its task in the argument list
ResultIndex(op, pos) == pos

\* get_recent_emails after the await of the gather of its detail fetches
EmailsOutcome(gathered) ==
  ExceptHttpError("emails",
    IF gathered.state = "exception" THEN Raise(gathered.exc)
    ELSE TransformAll(gathered.val, 1, <<>>))

\* A detail fetch comes back.  While get_recent_emails awaits the gather,
\* the first failure or the last result resumes it; a fetch that comes back
\* after that finds nobody waiting.
DetailResumes(c) ==
  /\ c \in inflight /\ c.op = "GetMessage" /\ MayResume(c.task)
  /\ inflight' = inflight \ {c}
  /\ \E r \in Outcomes({RemoteMessage(c.arg)}) :
       LET op == task[c.task]
           at == ResultIndex(op, c.pos)
           messages == [op.messages EXCEPT ![at] = FutureOf(r)]
           gathered == Gather(Pending, messages, at)
           after == [op EXCEPT !.messages = messages,
                               !.order = Append(op.order, c.pos)]
       IN IF op.pc = "details" /\ gathered.state # "pending"
          THEN /\ task' = [task EXCEPT ![c.task] =
                             [after EXCEPT !.pc = "done",
                                           !.outcome = FutureOf(EmailsOutcome(gathered))]]
               /\ fa' = FetchAllAfter(task', c.task)
          ELSE IF op.pc = "details"
          THEN /\ task' = [task EXCEPT ![c.task] = after]
               /\ UNCHANGED fa
          ELSE UNCHANGED << task, fa >>
  /\ UNCHANGED << credentials, service, builds, refreshed, builtWith, lastIssue,
                  raw, normalized >>

\* The caller has the result or the error of a call it awaited; nothing of
\* the call is left running.
Return(t) ==
  /\ t \in Solo /\ task[t].pc = "done"
  /\ \A c \in inflight : c.task # t
  /\ task' = [task EXCEPT ![t] = Idle]
  /\ UNCHANGED << credentials, service, builds, refreshed, builtWith, lastIssue,
                  fa, inflight, raw, normalized >>

\* The same for fetch_all_data and the three tasks of its gather.
FetchAllReturn ==
  /\ fa.pc = "done"
  /\ \A b \in Branches : task[b].pc = "done"
  /\ \A c \in inflight : c.task \notin Branches
  /\ task' = [t \in Tasks |-> IF t \in Branches THEN Idle ELSE task[t]]
  /\ fa' = [pc |-> "idle", outcome |-> Pending]
  /\ UNCHANGED << credentials, service, builds, refreshed, builtWith, lastIssue,
                  inflight, raw, normalized >>

\* Time passes: the access token reaches its expiry.
Expire ==
  /\ ~credentials.expired
  /\ credentials' = [credentials EXCEPT !.expired = TRUE]
  /\ UNCHANGED << service, builds, refreshed, builtWith, lastIssue, task, fa,
                  inflight, raw, normalized >>

\* No call of the client is in progress.
NoCall == fa.pc = "idle" /\ \A t \in Solo : task[t].pc = "idle"

\* No get_recent_emails is in progress, alone or within fetch_all_data.
NoEmailsCall == fa.pc = "idle" /\ \A t \in Solo : task[t].kind # "emails"

\* A caller that awaits each call of the client before it makes the next:
\* what runs concurrently is what fetch_all_data and get_recent_emails
\* gather.
Next ==
  \/ \E t \in Solo : NoCall /\ GetProfile(t)
  \/ \E t \in Solo : NoCall /\ GetLabels(t)
  \/ \E t \in Solo, max_results \in 1..MaxIds :
       NoCall /\ GetRecentEmails(t, max_results)
  \/ \E max_emails \in 1..MaxIds : NoCall /\ FetchAllData(max_emails)
  \/ \E b \in Branches : RunBranch(b)
  \/ \E c \in inflight : ProfileResumes(c)
  \/ \E c \in inflight : LabelsResumes(c)
  \/ \E c \in inflight : ListResumes(c)
  \/ \E c \in inflight : DetailResumes(c)
  \/ \E t \in Solo : Return(t)
  \/ FetchAllReturn
  \/ Expire

Spec == Init /\ [][Next]_vars

\* Callers that do not wait for one another: get_profile and get_labels
\* start at any time, also while fetch_all_data runs; one get_recent_emails
\* runs at a time.
NextCalls ==
  \/ \E t \in Solo : GetProfile(t)
  \/ \E t \in Solo : GetLabels(t)
  \/ \E t \in Solo, max_results \in 1..MaxIds :
       NoEmailsCall /\ GetRecentEmails(t, max_results)
  \/ \E max_emails \in 1..MaxIds : NoEmailsCall /\ FetchAllData(max_emails)
  \/ \E b \in Branches : RunBranch(b)
  \/ \E c \in inflight : ProfileResumes(c)
  \/ \E c \in inflight : LabelsResumes(c)
  \/ \E c \in inflight : ListResumes(c)
  \/ \E c \in inflight : DetailResumes(c)
  \/ \E t \in Solo : Return(t)
  \/ FetchAllReturn
  \/ Expire

SpecCalls == Init /\ [][NextCalls]_vars

(***************************************************************************)
(* _transform_message on its own                                           *)
(***************************************************************************)
\* 'internalDate' as the remote service or a test may give it: milliseconds
\* in decimal, and strings and values that are no such thing.
InternalDates ==
  { <<"0">>,
    <<"1","6","9","9","1","2","3","2","0","0","0","0","0">>,
    <<" ","1","2"," ">>,
    <<"-","5">>,
    <<"x">>,
    <<>>,
    PyNone,
    <<"2","5","3","4","0","2","3","0","0","8","0","0","0","0","0">>,
    <<"1","0","0","0","0","0","0","0","0","0","0","0","0","0","0","0","0","0",
      "0","0">>,
    <<"1","0","0","0","0","0","0","0","0","0","0","0","0","0","0","0","0","0",
      "0","0","0","0","0">> }

\* 'data' of a body: "Hi" and "Hi!" encoded, "Hi" without its padding, the
\* two bytes of U+00E9 in UTF-8, the byte E9 alone, "<b>" in the URL-safe
\* alphabet, a character outside ASCII, and nothing.
BodyDatas ==
  { <<"S","G","k","=">>, <<"S","G","k","h">>, <<"S","G","k">>,
    <<"w","6","k","=">>, <<"6","Q","=","=">>, <<"P","G","I","-">>,
    <<"U+00E9">>, <<>> }

\* 'data' of two parts side by side: "Hi", "Hi" without its padding, the
\* byte E9 alone, and nothing
SiblingDatas ==
  { <<"S","G","k","=">>, <<"S","G","k">>, <<"6","Q","=","=">>, <<>> }

Plain(data) == [mimeType |-> "text/plain", body |-> [data |-> data]]
Html(data) == [mimeType |-> "text/html", body |-> [data |-> data]]

SomeHeaders ==
  << [name |-> <<"f","r","o","m">>, value |-> "a@b.com"],
     [name |-> <<"S","U","B","J","E","C","T">>, value |-> "Hi"],
     [name |-> <<"F","r","o","m">>, value |-> "c@d.com"],
     [value |-> "no name"] >>

\* payloads: a single part, with and without headers; parts in one and in
\* two levels; a part with neither type nor body
Payloads ==
  { Plain(d) : d \in BodyDatas }
    \cup { Html(d) : d \in BodyDatas }
    \cup { [mimeType |-> "text/plain", headers |-> SomeHeaders,
            body |-> [data |-> d]] : d \in BodyDatas }
    \cup { [mimeType |-> "multipart/alternative", headers |-> SomeHeaders,
            parts |-> <<Html(<<"P","G","I","-">>), Plain(d)>>] : d \in BodyDatas }
    \cup { [ mimeType |-> "multipart/mixed",
             parts |-> << [mimeType |-> "multipart/alternative",
                           parts |-> <<Plain(<<>>), Html(d)>>],
                          Plain(<<"S","G","k","h">>) >> ] : d \in BodyDatas }
    \cup { [mimeType |-> "multipart/alternative", parts |-> <<Html(d)>>]
            : d \in BodyDatas }
    \cup { [ mimeType |-> "multipart/mixed",
             parts |-> << [mimeType |-> "application/pdf",
                           body |-> [attachmentId |-> "a1"]],
                          [mimeType |-> "multipart/alternative",
                           parts |-> <<Plain(<<>>), Html(<<"P","G","I","-">>)>>] >> ] }
    \cup { [mimeType |-> "multipart/mixed", parts |-> <<Plain(d), Html(e)>>]
            : d \in SiblingDatas, e \in SiblingDatas }
    \cup { [mimeType |-> "text/plain", parts |-> <<Plain(<<"S","G","k","=">>)>>],
           [mimeType |-> "text/plain", body |-> [data |-> <<>>],
            parts |-> <<Html(<<"P","G","I","-">>)>>],
           [mimeType |-> "text/plain", body |-> [size |-> 0]],
           [mimeType |-> "multipart/mixed"],
           [filename |-> ""] }

\* raw messages: every field there, or the identifier and the payload only,
\* or no payload and one field or another beside
RawMessages ==
  { [ id |-> "m1", threadId |-> "t1", internalDate |-> d,
      labelIds |-> <<"INBOX", "UNREAD">>, payload |-> p ]
    : d \in InternalDates, p \in Payloads }
    \cup { [id |-> "m2", payload |-> p] : p \in Payloads }
    \cup { [id |-> "m3"],
           [id |-> "m4", threadId |-> "t4", labelIds |-> <<"INBOX">>],
           [id |-> "m5", threadId |-> "t5", internalDate |-> <<"x">>],
           [threadId |-> "t6"] }

\* normalized = self._transform_message(raw)
Transform ==
  /\ normalized = NotCalled
  /\ normalized' = FutureOf(_transform_message(raw))
  /\ UNCHANGED << raw, clientVars >>

InitT ==
  /\ ClientInit /\ credentials = NoCredentials
  /\ raw \in RawMessages
  /\ normalized = NotCalled

NextT == Transform

SpecT == InitT /\ [][NextT]_vars

(***************************************************************************)
(* _transform_message twice, with the client at work in between            *)
(***************************************************************************)
\* client = AsyncGmailClient(credentials): another instance takes the place
\* of the one at hand
NewClient(creds) ==
  /\ NoCall /\ inflight = {}
  /\ credentials' = creds
  /\ service' = 0
  /\ builds' = 0
  /\ refreshed' = FALSE
  /\ builtWith' = NoCredentials
  /\ lastIssue' = NoIssue
  /\ UNCHANGED << task, fa, inflight, raw, normalized >>

\* first = client._transform_message(raw); what the client holds then is
\* kept beside it
TransformFirst ==
  /\ normalized = NotCalled
  /\ normalized' = [ state |-> "once",
                     first |-> FutureOf(_transform_message(raw)),
                     client |-> << credentials, service >> ]
  /\ UNCHANGED << raw, clientVars >>

\* second = client._transform_message(raw)
TransformAgain ==
  /\ normalized.state = "once"
  /\ normalized' = [ state |-> "twice",
                     first |-> normalized.first,
                     second |-> FutureOf(_transform_message(raw)),
                     client |-> normalized.client ]
  /\ UNCHANGED << raw, clientVars >>

InitD ==
  /\ ClientInit
  /\ raw \in { RemoteMessage(id) : id \in MessageIds }
  /\ normalized = NotCalled

NextD ==
  \/ \E t \in Solo : NoCall /\ GetProfile(t)
  \/ \E c \in inflight : ProfileResumes(c)
  \/ \E t \in Solo : Return(t)
  \/ Expire
  \/ \E creds \in [expired : BOOLEAN, refresh_token : BOOLEAN] : NewClient(creds)
  \/ TransformFirst
  \/ TransformAgain

SpecD == InitD /\ [][NextD]_vars

(***************************************************************************)
(* The calls of Spec when the loop runs and the executors finish           *)
(***************************************************************************)
\* The event loop runs a task that is ready (RunBranch), and a call handed
\* to an executor comes back at last, with a result or an error; when the
\* caller goes on to its next call is up to the caller.
Fairness ==
  /\ WF_vars(\E b \in Branches : RunBranch(b))
  /\ WF_vars(\E c \in inflight : ProfileResumes(c))
  /\ WF_vars(\E c \in inflight : LabelsResumes(c))
  /\ WF_vars(\E c \in inflight : ListResumes(c))
  /\ WF_vars(\E c \in inflight : DetailResumes(c))

SpecLive == Init /\ [][Next]_vars /\ Fairness

(***************************************************************************)
(* get_recent_emails with a list call that returns what it will            *)
(***************************************************************************)
\* messages().list(...).execute() as the client sees it, not held to
\* maxResults: any number of the mailbox's identifiers.
AnyListResponses ==
  UNION { { [ messages |-> [i \in 1..n |-> [id |-> box[i], threadId |-> "t1"]],
              resultSizeEstimate |-> n ] : n \in 0..Len(box) }
          : box \in Mailboxes }
  \cup { [resultSizeEstimate |-> 0] }

ListResumesAny(c) == ListResumesWith(c, AnyListResponses)

NextR ==
  \/ \E t \in Solo, max_results \in 1..MaxIds :
       NoCall /\ GetRecentEmails(t, max_results)
  \/ \E c \in inflight : ListResumesAny(c)
  \/ \E c \in inflight : DetailResumes(c)
  \/ \E t \in Solo : Return(t)

SpecR == Init /\ [][NextR]_vars

(***************************************************************************)
(* fetch_gmail_data, one invocation after another                          *)
(***************************************************************************)
\* the number of invocations of fetch_gmail_data that are followed
MaxFetches == 2

\* (a fetch_gmail_data that kept one client for all its invocations)
FetchWithOneClient(creds, max_emails) ==
  /\ NoCall /\ inflight = {}
  /\ Get(fa, "n", 0) < MaxFetches
  /\ fa' = [ pc |-> "await", outcome |-> Pending, credentials |-> creds,
             max_emails |-> max_emails, n |-> Get(fa, "n", 0) + 1,
             last |-> Get(fa, "last", Pending) ]
  /\ task' = [t \in Tasks |->
               IF t \in Branches
               THEN [Idle EXCEPT !.kind = BranchKind(t), !.pc = "new",
                                 !.max_results = IF t = 3 THEN max_emails ELSE 0]
               ELSE task[t]]
  /\ UNCHANGED << credentials, service, builds, refreshed, builtWith, lastIssue,
                  inflight, raw, normalized >>

\* await fetch_gmail_data(credentials, max_emails), up to the await of the
\* gather: a client is made for the credentials and its fetch_all_data
\* called.  The coroutine keeps its arguments, which invocation it is (n)
\* and what the one before returned (last).
FetchGmailData(creds, max_emails) ==
  /\ NoCall /\ inflight = {}
  /\ Get(fa, "n", 0) < MaxFetches
  /\ credentials' = creds
  /\ service' = 0
  /\ builds' = 0
  /\ refreshed' = FALSE
  /\ builtWith' = NoCredentials
  /\ lastIssue' = NoIssue
  /\ fa' = [ pc |-> "await", outcome |-> Pending, credentials |-> creds,
             max_emails |-> max_emails, n |-> Get(fa, "n", 0) + 1,
             last |-> Get(fa, "last", Pending) ]
  /\ task' = [t \in Tasks |->
               IF t \in Branches
               THEN [Idle EXCEPT !.kind = BranchKind(t), !.pc = "new",
                                 !.max_results = IF t = 3 THEN max_emails ELSE 0]
               ELSE task[t]]
  /\ UNCHANGED << inflight, raw, normalized >>

\* The caller has what fetch_gmail_data returned or raised; nothing of the
\* invocation is left running.
FetchGmailReturn ==
  /\ fa.pc = "done"
  /\ \A b \in Branches : task[b].pc = "done"
  /\ \A c \in inflight : c.task \notin Branches
  /\ task' = [t \in Tasks |-> IF t \in Branches THEN Idle ELSE task[t]]
  /\ fa' = [pc |-> "idle", outcome |-> Pending, n |-> fa.n, last |-> fa.outcome]
  /\ UNCHANGED << credentials, service, builds, refreshed, builtWith, lastIssue,
                  inflight, raw, normalized >>

NextG ==
  \/ \E creds \in [expired : BOOLEAN, refresh_token : BOOLEAN],
        max_emails \in 1..MaxIds : FetchGmailData(creds, max_emails)
  \/ \E b \in Branches : RunBranch(b)
  \/ \E c \in inflight : ProfileResumes(c)
  \/ \E c \in inflight : LabelsResumes(c)
  \/ \E c \in inflight : ListResumes(c)
  \/ \E c \in inflight : DetailResumes(c)
  \/ FetchGmailReturn
  \/ Expire

SpecG == Init /\ [][NextG]_vars

(***************************************************************************)
(* Properties                                                              *)
(***************************************************************************)
\* the error a GmailAPIError wraps, or the error itself
Cause(e) == IF e.type = "GmailAPIError" THEN e.message[2] ELSE e

\* the errors that come from a remote call
RemoteErrorTypes == {"HttpError", "TransportError"}

\* the remote calls of task t that an executor holds
InflightOf(t) == { c \in inflight : c.task = t }

\* C1: a get_recent_emails that succeeds returns as many messages as the list
\* call returned identifiers, and the i-th message is the normalization of
\* the detail of the i-th identifier, in whatever order the detail fetches
\* came back.
C1_OutputFollowsIdentifierList ==
  \A t \in Tasks :
    (task[t].kind = "emails" /\ task[t].outcome.state = "result") =>
      LET ids == task[t].message_ids
          out == task[t].outcome.val
      IN /\ Len(out) = Len(ids)
         /\ \A i \in 1..Len(ids) :
              _transform_message(RemoteMessage(ids[i])) = Ok(out[i])

\* a get_recent_emails has succeeded whose second detail fetch came back
\* before its first
C1_Witness ==
  \E t \in Tasks :
    /\ task[t].kind = "emails" /\ task[t].outcome.state = "result"
    /\ Len(task[t].message_ids) >= 2
    /\ task[t].order[1] = 2

\* C2: fetch_all_data returns a snapshot only when its three branches have
\* succeeded, the snapshot is the profile, the labels and the emails the
\* branches returned, and when a branch has failed fetch_all_data has failed.
C2_SnapshotAllOrNothing ==
  /\ fa.outcome.state = "result" =>
       /\ \A b \in Branches : task[b].outcome.state = "result"
       /\ fa.outcome.val = [ profile |-> task[1].outcome.val,
                             labels |-> task[2].outcome.val,
                             emails |-> task[3].outcome.val ]
  /\ (\E b \in Branches : task[b].outcome.state = "exception") =>
       fa.outcome.state = "exception"

\* fetch_all_data has returned a snapshot with messages in it
C2_Witness ==
  /\ fa.pc = "done" /\ fa.outcome.state = "result"
  /\ fa.outcome.val.emails # <<>>

\* C3: when its list call or one of its detail fetches has failed,
\* get_recent_emails has failed with GmailAPIError.
C3_FailureIsGmailAPIError ==
  \A t \in Tasks :
    ( /\ task[t].kind = "emails"
      /\ \/ task[t].listed.state = "exception"
         \/ \E i \in DOMAIN task[t].messages :
              task[t].messages[i].state = "exception" ) =>
      /\ task[t].outcome.state = "exception"
      /\ task[t].outcome.exc.type = "GmailAPIError"

\* C4: an error of a remote call leaves get_profile, get_labels and
\* get_recent_emails as the GmailAPIError that names the operation and wraps
\* the error, and in no other form.
C4_RemoteFailureIsWrapped ==
  \A t \in Tasks :
    ( /\ task[t].outcome.state = "exception"
      /\ Cause(task[t].outcome.exc).type \in RemoteErrorTypes ) =>
      task[t].outcome.exc =
        GmailAPIError(What(task[t].kind), Cause(task[t].outcome.exc))

\* C5: when the GetProfile call has failed, get_profile has failed with a
\* GmailAPIError whose message refers to the profile, and when the ListLabels
\* call has failed, get_labels has failed with one that refers to the labels.
C5_ProfileAndLabelsAreNamed ==
  \A t \in Tasks :
    ( /\ task[t].kind \in {"profile", "labels"}
      /\ task[t].pc = "done" /\ task[t].outcome.state # "result"
      /\ Cause(task[t].outcome.exc).type \in RemoteErrorTypes ) =>
      /\ task[t].outcome.exc.type = "GmailAPIError"
      /\ task[t].outcome.exc.message[1] = "Failed to fetch " \o task[t].kind

\* C6: a GetMessage call is with an executor only when the list call of its
\* get_recent_emails has come back with a result: never while that call is
\* outstanding, never before it is made.
C6_ListBeforeDetails ==
  \A c \in inflight :
    c.op = "GetMessage" =>
      /\ task[c.task].pc \notin {"idle", "new", "await"}
      /\ task[c.task].listed.state = "result"
      /\ \A d \in InflightOf(c.task) : d.op # "ListMessageIds"

\* the detail fetches of a list of two identifiers are with their executors
C6_Witness ==
  \E t \in Tasks :
    /\ task[t].pc = "details"
    /\ \E c, d \in InflightOf(t) :
         c.op = "GetMessage" /\ d.op = "GetMessage" /\ c # d

\* C7: a list call that returns no identifier, its 'messages' empty or
\* absent, makes get_recent_emails return the empty list and fetch no
\* detail; the empty list is returned in no other case, and a list call
\* that failed makes get_recent_emails fail.
C7_NoIdentifiersIsEmptySuccess ==
  \A t \in Tasks :
    task[t].kind = "emails" =>
      /\ ( /\ task[t].listed.state = "result"
           /\ MessageIdsOf(task[t].listed.val) = <<>> ) =>
           /\ task[t].outcome = Result(<<>>)
           /\ task[t].messages = <<>> /\ task[t].order = <<>>
           /\ \A c \in InflightOf(t) : c.op # "GetMessage"
      /\ task[t].outcome = Result(<<>>) =>
           /\ task[t].listed.state = "result"
           /\ MessageIdsOf(task[t].listed.val) = <<>>
      /\ task[t].listed.state = "exception" => task[t].outcome.state = "exception"

\* get_recent_emails has returned after a list call whose response had no
\* 'messages'
C7_Witness ==
  \E t \in Tasks :
    /\ task[t].kind = "emails" /\ task[t].pc = "done"
    /\ task[t].listed.state = "result"
    /\ "messages" \notin DOMAIN task[t].listed.val
    /\ task[t].outcome.state = "result"

\* C8: however the calls of one client follow and overlap one another, build
\* has returned at most one handle, and every remote call under way and
\* every coroutine that awaits one holds the handle of the client.
C8_OneHandle ==
  /\ builds <= 1
  /\ \A c \in inflight : c.service = service
  /\ \A t \in Tasks : task[t].pc \in {"await", "details"} => task[t].service = service

\* a call made beside fetch_all_data and a branch of fetch_all_data have
\* remote calls under way at the same time
C8_Witness ==
  /\ builds = 1
  /\ \E c, d \in inflight : c.task \in Solo /\ d.task \in Branches

\* C9 as stated: no remote call is issued with credentials that are expired,
\* have a refresh token and were never refreshed.
C9_NoCallWithExpiredCredentials ==
  lastIssue = "expired" => (~credentials.refresh_token \/ refreshed)

\* C9: no remote call is issued before the handle exists, and the
\* credentials the handle is built with are not both expired and
\* refreshable: those that were are refreshed before build is called.
C9_RefreshBeforeConstruction ==
  /\ service = 0 => lastIssue = NoIssue /\ inflight = {}
  /\ service # 0 => ~(builtWith.expired /\ builtWith.refresh_token)
  /\ refreshed => credentials.refresh_token

\* a remote call has been issued on a handle built after a refresh
C9_Witness ==
  /\ service # 0 /\ refreshed /\ builtWith.refresh_token
  /\ lastIssue = "valid"

\* C10: _transform_message raises for no raw message.
C10_TransformIsTotal == normalized.state # "exception"

\* the message text and the time stamp of the raw message at hand
RawPayload == Get(raw, "payload", EmptyDict)
RawText == _extract_email_content(RawPayload)

\* 'internalDate' is there and is the decimal form of an integer that is not
\* negative and that datetime.fromtimestamp takes
IsTimestamp(message) ==
  /\ "internalDate" \in DOMAIN message
  /\ LET ms == PyInt(message.internalDate) IN
     ms.ok /\ ~ms.val.neg /\ FromTimestampIso(ms.val).ok

\* C11: a raw message whose internalDate is absent, is no integer, is
\* negative or is too large for a time stamp is transformed without an error
\* into a record whose messageTimestamp is that of the epoch.
C11_BadTimestampIsEpoch ==
  (normalized # NotCalled /\ RawText.ok /\ ~IsTimestamp(raw)) =>
    /\ normalized.state = "result"
    /\ normalized.val.messageTimestamp = EpochIso

MultipartTypes == {"multipart/mixed", "multipart/alternative"}

\* the data of the first text/plain leaf with inline data in the depth-first
\* pre-order of a part tree, <<>> when the tree has none
RECURSIVE FirstPlainLeaf(_)
RECURSIVE FirstPlainIn(_, _)
FirstPlainIn(parts, i) ==
  IF i > Len(parts) THEN <<>>
  ELSE IF FirstPlainLeaf(parts[i]) # <<>> THEN FirstPlainLeaf(parts[i])
  ELSE FirstPlainIn(parts, i + 1)

FirstPlainLeaf(part) ==
  IF Get(part, "parts", <<>>) # <<>> THEN FirstPlainIn(part.parts, 1)
  ELSE IF Get(part, "mimeType", "None") = "text/plain" THEN BodyData(part)
  ELSE <<>>

\* C12: the messageText of a multipart message that has a text/plain leaf
\* with inline data is the decoded data of the first such leaf in depth-first
\* pre-order, whatever parts come before it.
C12_FirstPlainLeafWins ==
  ( /\ normalized.state = "result"
    /\ Get(RawPayload, "mimeType", "None") \in MultipartTypes
    /\ FirstPlainLeaf(RawPayload) # <<>>
    /\ DecodeBody(FirstPlainLeaf(RawPayload)).ok ) =>
    normalized.val.messageText = DecodeBody(FirstPlainLeaf(RawPayload)).val

\* the payload is text/plain at the top and has no inline data
TopPlainWithoutData ==
  /\ Get(RawPayload, "mimeType", "None") = "text/plain"
  /\ BodyData(RawPayload) = <<>>

IsLeafWithData(part) ==
  /\ Get(part, "parts", <<>>) = <<>>
  /\ Get(part, "mimeType", "None") \in {"text/plain", "text/html"}
  /\ BodyData(part) # <<>>

\* C13 as stated: a payload that is text/plain at the top and has no inline
\* data gives the empty messageText, nested parts or not.
C13_TopLevelStopsAtEmptyBody ==
  (normalized.state = "result" /\ TopPlainWithoutData) =>
    normalized.val.messageText = <<>>

\* C13: a payload that is text/plain at the top and has no inline data gives
\* the empty messageText when it has no parts, and the decoded data of its
\* part when it has one part that is a text/plain or text/html leaf with
\* data: the walk of the parts is made.
C13_TopLevelWalksParts ==
  (normalized.state = "result" /\ TopPlainWithoutData) =>
    LET parts == Get(RawPayload, "parts", <<>>) IN
    /\ parts = <<>> => normalized.val.messageText = <<>>
    /\ (Len(parts) = 1 /\ IsLeafWithData(parts[1])) =>
         normalized.val.messageText = DecodeBody(BodyData(parts[1])).val

\* a text/plain payload without data has been given the text of its part
C13_Witness ==
  /\ normalized.state = "result" /\ TopPlainWithoutData
  /\ Get(RawPayload, "parts", <<>>) # <<>>
  /\ normalized.val.messageText = <<72, 105>>

\* two names that differ at most in the case of their letters
EqualIgnoringCase(a, b) ==
  /\ Len(a) = Len(b)
  /\ \A i \in 1..Len(a) :
       \/ a[i] = b[i]
       \/ \E k \in 1..26 : {a[i], b[i]} = {UpperCase[k], LowerCase[k]}

\* the value of the first header of the sequence whose name is the given one
\* but for the case of its letters, the empty string when there is none
FirstMatchingValue(headers, name) ==
  LET found == { i \in 1..Len(headers) :
                   EqualIgnoringCase(Get(headers[i], "name", <<>>), name) } IN
  IF found = {} THEN ""
  ELSE Get(headers[CHOOSE i \in found : \A j \in found : i <= j], "value", "")

HeaderNames ==
  { <<"F","r","o","m">>, <<"F","R","O","M">>, <<"S","u","b","j","e","c","t">>,
    <<"s","u","b","j","e","c","t">>, <<"T","o">>, <<"F","r","o">> }

RawHeaders == Get(RawPayload, "headers", <<>>)

\* C14: _extract_header_value returns the value of the first header in the
\* sequence whose name equals the wanted one without regard to case, and the
\* empty string when no header has that name; sender and subject are the
\* values it returns for From and Subject.
C14_FirstMatchIgnoringCase ==
  normalized.state = "result" =>
    /\ \A name \in HeaderNames :
         _extract_header_value(RawHeaders, name) = FirstMatchingValue(RawHeaders, name)
    /\ normalized.val.sender = FirstMatchingValue(RawHeaders, <<"F","r","o","m">>)
    /\ normalized.val.subject =
         FirstMatchingValue(RawHeaders, <<"S","u","b","j","e","c","t">>)

\* a message with two From headers, the first written "from", and a SUBJECT
\* header has been transformed
C14_Witness ==
  /\ normalized.state = "result"
  /\ RawHeaders = SomeHeaders
  /\ normalized.val.sender = "a@b.com" /\ normalized.val.subject = "Hi"
  /\ _extract_header_value(RawHeaders, <<"T","o">>) = ""

\* the raw message has no payload and has been transformed into a record
NoPayloadTransformed ==
  /\ normalized.state = "result"
  /\ "payload" \notin DOMAIN raw

\* C15 as stated: a raw message without payload gives empty sender, subject
\* and messageText and an empty labelIds, with its id and threadId kept.
C15_NoPayloadEmptiesLabels ==
  NoPayloadTransformed =>
    /\ normalized.val.sender = "" /\ normalized.val.subject = ""
    /\ normalized.val.messageText = <<>>
    /\ normalized.val.labelIds = <<>>
    /\ normalized.val.messageId = Get(raw, "id", "")
    /\ normalized.val.threadId = Get(raw, "threadId", "")

\* C15: a raw message without payload gives empty sender, subject and
\* messageText, with its id, its threadId and its labelIds kept; labelIds is
\* empty when the raw message has none.
C15_NoPayloadKeepsLabels ==
  NoPayloadTransformed =>
    /\ normalized.val.sender = "" /\ normalized.val.subject = ""
    /\ normalized.val.messageText = <<>>
    /\ normalized.val.labelIds = Get(raw, "labelIds", <<>>)
    /\ normalized.val.messageId = Get(raw, "id", "")
    /\ normalized.val.threadId = Get(raw, "threadId", "")

\* a raw message with labels and without payload has been transformed
C15_Witness ==
  /\ NoPayloadTransformed
  /\ "labelIds" \in DOMAIN raw
  /\ normalized.val.labelIds = <<"INBOX">>
  /\ normalized.val.messageId = "m4"

GMAIL_FIELDS ==
  { "messageId", "threadId", "messageTimestamp", "labelIds", "sender",
    "subject", "messageText" }

\* C16: a record _transform_message returns has the seven fields, and a
\* field whose source is missing has its default: the empty string for id,
\* threadId, the From and Subject headers and the body, the empty sequence
\* for labelIds, the time stamp of the epoch for internalDate.
C16_EveryFieldDefined ==
  normalized.state = "result" =>
    /\ DOMAIN normalized.val = GMAIL_FIELDS
    /\ "id" \notin DOMAIN raw => normalized.val.messageId = ""
    /\ "threadId" \notin DOMAIN raw => normalized.val.threadId = ""
    /\ "labelIds" \notin DOMAIN raw => normalized.val.labelIds = <<>>
    /\ RawHeaders = <<>> =>
         normalized.val.sender = "" /\ normalized.val.subject = ""
    /\ DOMAIN RawPayload \cap {"body", "parts"} = {} =>
         normalized.val.messageText = <<>>
    /\ "internalDate" \notin DOMAIN raw =>
         normalized.val.messageTimestamp = "1970-01-01T00:00:00"

\* a raw message that has a threadId and nothing else has been transformed
C16_Witness ==
  /\ normalized.state = "result"
  /\ DOMAIN raw = {"threadId"}
  /\ normalized.val.threadId = "t6"

\* how many calls of an operation task t has issued
Issued(t, op) ==
  Cardinality({ i \in DOMAIN task[t].issued : task[t].issued[i].op = op })

\* how many GetMessage calls for an identifier task t has issued
IssuedFor(t, id) ==
  Cardinality({ i \in DOMAIN task[t].issued :
                  task[t].issued[i].op = "GetMessage" /\ task[t].issued[i].arg = id })

\* task t has had its first step and _get_service gave it the handle
HasHandle(t) == task[t].pc \notin {"idle", "new"} /\ task[t].service # 0

FirstOp(kind) ==
  CASE kind = "profile" -> "GetProfile"
    [] kind = "labels" -> "ListLabels"
    [] kind = "emails" -> "ListMessageIds"

\* C17: a call of get_profile, get_labels or get_recent_emails that has its
\* handle has issued its first remote call once (GetProfile, ListLabels,
\* ListMessageIds), one that has not has issued none; get_recent_emails has
\* issued at most one GetMessage for an identifier, and only for the
\* identifiers the list call returned; nothing else is issued, whether the
\* calls fail or not.
C17_NoCallIsRepeated ==
  \A t \in Tasks :
    task[t].kind # "idle" =>
      /\ Issued(t, FirstOp(task[t].kind)) = IF HasHandle(t) THEN 1 ELSE 0
      /\ \A id \in MessageIds :
           IssuedFor(t, id) =
             IF \E i \in DOMAIN task[t].message_ids : task[t].message_ids[i] = id
             THEN 1 ELSE 0
      /\ Len(task[t].issued) =
           (IF HasHandle(t) THEN 1 ELSE 0) + Len(task[t].message_ids)
      /\ task[t].kind # "emails" => task[t].message_ids = <<>>

\* a get_recent_emails has failed after a detail fetch failed, with its list
\* call and two detail fetches issued
C17_Witness ==
  \E t \in Tasks :
    /\ task[t].kind = "emails" /\ task[t].pc = "done"
    /\ task[t].outcome.state = "exception"
    /\ \E i \in DOMAIN task[t].messages : task[t].messages[i].state = "exception"
    /\ Len(task[t].issued) = 3

\* C18: when fetch_all_data fails, its error is the GmailAPIError "Failed to
\* fetch Gmail data" that wraps the error of a branch, whichever branch
\* failed and whatever it raised.
C18_FetchAllFailureIsWrapped ==
  fa.outcome.state = "exception" =>
    /\ fa.outcome.exc.type = "GmailAPIError"
    /\ fa.outcome.exc.message[1] = "Failed to fetch Gmail data"
    /\ \E b \in Branches : task[b].outcome = Exception(fa.outcome.exc.message[2])

\* fetch_all_data has failed on an error of get_labels that is no
\* GmailAPIError
C18_Witness ==
  /\ fa.pc = "done" /\ fa.outcome.state = "exception"
  /\ task[2].outcome.state = "exception"
  /\ task[2].outcome.exc.type = "TransportError"
  /\ fa.outcome.exc.message[2] = task[2].outcome.exc

\* the parts of a tree that have inline data, in depth-first pre-order
RECURSIVE PartsWithData(_)
RECURSIVE PartsWithDataIn(_, _)
PartsWithDataIn(parts, i) ==
  IF i > Len(parts) THEN <<>>
  ELSE PartsWithData(parts[i]) \o PartsWithDataIn(parts, i + 1)

PartsWithData(part) ==
  (IF BodyData(part) # <<>> THEN <<part>> ELSE <<>>)
    \o PartsWithDataIn(Get(part, "parts", <<>>), 1)

\* the payload is multipart and its one part with data is text/html
OnlyHtmlContent ==
  /\ Get(RawPayload, "mimeType", "None") \in MultipartTypes
  /\ Len(PartsWithData(RawPayload)) = 1
  /\ PartsWithData(RawPayload)[1].mimeType = "text/html"

\* C19: the messageText of a multipart message whose one part with data is
\* text/html is the decoded data of that part as it is: that of "PGI-" is
\* "<b>", tags and all.
C19_HtmlOnlyIsVerbatim ==
  (normalized.state = "result" /\ OnlyHtmlContent) =>
    LET data == BodyData(PartsWithData(RawPayload)[1]) IN
    /\ DecodeBody(data).ok
    /\ normalized.val.messageText = DecodeBody(data).val
    /\ data = <<"P","G","I","-">> => normalized.val.messageText = <<60, 98, 62>>

\* a message whose one part with data is a nested text/html part has been
\* given that part's text
C19_Witness ==
  /\ normalized.state = "result" /\ OnlyHtmlContent
  /\ Len(RawPayload.parts) = 2
  /\ normalized.val.messageText = <<60, 98, 62>>

Fetching == fa.pc \in {"await", "done"} /\ "n" \in DOMAIN fa

\* C21: an invocation of fetch_gmail_data works on a client of its own, made
\* for the credentials it was given and without a handle before the first
\* branch runs; it calls fetch_all_data with the max_emails it was given; at
\* most one handle is built in it and its calls use that one; and the
\* snapshot it returns is made of the results of its own three branches.
C21_FreshClientPerFetch ==
  Fetching =>
    /\ credentials.refresh_token = fa.credentials.refresh_token
    /\ (\A b \in Branches : task[b].pc = "new") =>
         service = 0 /\ builds = 0 /\ ~refreshed /\ lastIssue = NoIssue
    /\ task[3].kind = "emails" /\ task[3].max_results = fa.max_emails
    /\ builds <= 1
    /\ \A c \in inflight : c.service = service /\ service # 0
    /\ fa.outcome.state = "result" =>
         fa.outcome.val = [ profile |-> task[1].outcome.val,
                            labels |-> task[2].outcome.val,
                            emails |-> task[3].outcome.val ]

\* a second invocation has returned a snapshot, other than the snapshot the
\* first returned, from calls on a handle of its own
C21_Witness ==
  /\ Fetching /\ fa.n = 2 /\ fa.pc = "done"
  /\ fa.last.state = "result"
  /\ fa.outcome.state = "result" /\ fa.outcome # fa.last
  /\ builds = 1 /\ service # 0

\* C22: a failure of one branch of fetch_all_data, or of one detail fetch of
\* get_recent_emails, cancels nothing and is final.  In every step at most
\* one remote call stops being outstanding (the one that came back), so
\* the step that reports a failure withdraws no sibling's call; and an
\* outcome once reported stays as it is until the caller has it, whatever
\* the siblings do afterwards.
C22_FailureIsFinalSiblingsRun ==
  [][ /\ Cardinality(inflight \ inflight') <= 1
      /\ (fa.pc = "done" /\ fa'.pc = "done") => fa'.outcome = fa.outcome
      /\ \A t \in Tasks :
           (task[t].pc = "done" /\ task'[t].pc = "done") =>
              task'[t].outcome = task[t].outcome ]_vars

\* fetch_all_data has reported the failure of one branch, another branch
\* has failed after that with an error of its own, and get_recent_emails
\* has failed on one detail fetch while another is still outstanding
C22_Witness ==
  /\ fa.pc = "done" /\ fa.outcome.state = "exception"
  /\ \E b, c \in Branches :
       /\ b # c
       /\ task[b].pc = "done" /\ task[b].outcome.state = "exception"
       /\ task[c].pc = "done" /\ task[c].outcome.state = "exception"
       /\ Cause(fa.outcome.exc) = task[b].outcome.exc
       /\ task[c].outcome.exc # task[b].outcome.exc
  /\ task[3].pc = "done" /\ task[3].outcome.state = "exception"
  /\ \E c \in inflight : c.task = 3 /\ c.op = "GetMessage"

\* C23: the three branches of fetch_all_data do not wait for one another.
\* As long as a branch has not had its first step, no remote call of
\* another branch has come back: every call the branches have issued is
\* still outstanding and no branch that got a handle has gone past its
\* first await.  So no branch's start was put off until a call completed.
C23_BranchesStartBeforeAnyCompletion ==
  (fa.pc # "idle" /\ \E b \in Branches : task[b].pc = "new") =>
     \A c \in Branches :
        /\ \A i \in 1..Len(task[c].issued) : task[c].issued[i] \in inflight
        /\ task[c].pc \in {"new", "await", "done"}
        /\ task[c].pc = "done" => task[c].issued = <<>>

\* GetProfile, ListLabels and ListMessageIds are outstanding together
C23_Witness ==
  /\ fa.pc = "await"
  /\ \E c \in inflight : c.task = 1 /\ c.op = "GetProfile"
  /\ \E c \in inflight : c.task = 2 /\ c.op = "ListLabels"
  /\ \E c \in inflight : c.task = 3 /\ c.op = "ListMessageIds"

\* the identifiers the list call of task t returned
Listed(t) ==
  IF task[t].listed.state = "result" THEN MessageIdsOf(task[t].listed.val)
  ELSE <<>>

YieldsOwnText(part) ==
  /\ Get(part, "mimeType", "None") \in {"text/plain", "text/html"}
  /\ BodyData(part) # <<>>

\* the children of the payload whose walk returned the empty text, up to
\* and without child k
EmptyBefore(parts, k) ==
  \A j \in 1..(k - 1) :
     _get_text_from_part(parts[j]).ok /\ _get_text_from_part(parts[j]).val = <<>>

\* C25: for a payload that yields no text itself, the walk returns the text
\* of the first child, in order, whose own walk returns a text that is not
\* empty, whatever the children after that one hold (data that cannot be
\* decoded included, so they are not examined); and it returns the empty
\* text when the walk of every child returns the empty text.
C25_FirstChildWithTextWins ==
  (normalized # NotCalled /\ ~YieldsOwnText(RawPayload)) =>
     LET parts == Get(RawPayload, "parts", <<>>) IN
     /\ \A k \in 1..Len(parts) :
          ( /\ EmptyBefore(parts, k)
            /\ _get_text_from_part(parts[k]).ok
            /\ _get_text_from_part(parts[k]).val # <<>> ) =>
            /\ RawText = Ok(_get_text_from_part(parts[k]).val)
            /\ normalized.state = "result" =>
                 normalized.val.messageText = _get_text_from_part(parts[k]).val
     /\ EmptyBefore(parts, Len(parts) + 1) =>
          /\ RawText = Ok(<<>>)
          /\ normalized.state = "result" => normalized.val.messageText = <<>>

\* the first of two children has given its text, "Hi", and the second holds
\* data that cannot be decoded
C25_Witness ==
  /\ normalized.state = "result" /\ ~YieldsOwnText(RawPayload)
  /\ Len(Get(RawPayload, "parts", <<>>)) = 2
  /\ _get_text_from_part(RawPayload.parts[1]) = Ok(<<72, 105>>)
  /\ ~_get_text_from_part(RawPayload.parts[2]).ok
  /\ normalized.val.messageText = <<72, 105>>

\* C26: when every remote call that was issued comes back, every
\* get_recent_emails, alone or as a branch, and every fetch_all_data that
\* has begun comes to its end, with a result or an error.
C26_EveryInvocationEnds ==
  /\ \A t \in Tasks :
       (task[t].kind = "emails" /\ task[t].pc \in {"new", "await", "details"})
          ~> (task[t].pc = "done")
  /\ (fa.pc = "await") ~> (fa.pc = "done")

\* fetch_all_data has returned its snapshot after get_recent_emails had the
\* details of two identifiers, of which the second came back first
C26_Witness ==
  /\ fa.pc = "done" /\ fa.outcome.state = "result"
  /\ task[3].pc = "done" /\ task[3].outcome.state = "result"
  /\ task[3].order = <<2, 1>>
  /\ inflight = {}

\* the errors of _get_service: of credentials.refresh and of build
AcquisitionErrors == {"RefreshError", "BuildError"}

\* task t has just ended, in this step, on an error of _get_service
AcquisitionFails(t) ==
  /\ task[t].pc # "done" /\ task'[t].pc = "done"
  /\ task'[t].outcome.state = "exception"
  /\ Cause(task'[t].outcome.exc).type \in AcquisitionErrors

\* C27: the step in which an operation fails to acquire the handle leaves
\* the handle unset as it was, counts no handle built, and issues no remote
\* call; and whenever the handle is unset, whatever failed before, the next
\* _get_service goes through refresh and build again and has the handle
\* when they succeed: nothing of a failure is remembered.
C27_FailedAcquisitionIsNotKept ==
  [][ /\ \A t \in Tasks :
           AcquisitionFails(t) =>
              /\ service = 0 /\ service' = 0
              /\ builds' = builds
              /\ inflight' = inflight
              /\ task'[t].issued = <<>>
      /\ service = 0 =>
           /\ _get_service(TRUE, TRUE).built
           /\ _get_service(TRUE, TRUE).res = Ok(builds + 1) ]_vars

\* get_profile has failed on build without a remote call, and get_labels,
\* run after it, has built the handle and issued its call
C27_Witness ==
  /\ task[1].pc = "done" /\ task[1].outcome.state = "exception"
  /\ Cause(task[1].outcome.exc).type = "BuildError"
  /\ task[1].issued = <<>>
  /\ task[2].service # 0 /\ task[2].service = service /\ builds = 1
  /\ Issued(2, "ListLabels") = 1

\* C28: once the client has its handle, no step of any operation refreshes
\* the credentials or builds a handle: the handle, the count of handles
\* built and the credentials it was built with stay as they are, and the
\* credentials change only by expiring.
C28_NoRefreshOnceHandleExists ==
  [][ service # 0 =>
        /\ service' = service
        /\ builds' = builds
        /\ builtWith' = builtWith
        /\ refreshed' = refreshed
        /\ \/ credentials' = credentials
           \/ ~credentials.expired /\ credentials'.expired ]_vars

\* a remote call has been issued on the handle after the credentials, which
\* have a refresh token and were valid when the handle was built, expired
C28_Witness ==
  /\ service # 0 /\ ~builtWith.expired
  /\ credentials.expired /\ credentials.refresh_token /\ ~refreshed
  /\ lastIssue = "expired"

====
